---- MODULE Spec2Model ----
(***************************************************************************)
(* Model of tools/parse_stats.py: the dimension extractor, the metric line *)
(* parser, the collator and the CSV writer.                                *)
(*                                                                         *)
(* Python strings are modelled as sequences of one-character strings, so   *)
(* that stripping, tokenising, regular-expression matching and code-point  *)
(* comparison are computed character by character.  Floats are modelled by *)
(* their exact decimal value (sign, mantissa, decimal exponent); the       *)
(* literals of the model stay far below the 15 significant digits up to    *)
(* which a float holds a decimal literal exactly.                          *)
(***************************************************************************)
EXTENDS Integers, Sequences, FiniteSets, TLC

(***************************************************************************)
(* Bounds of the model.                                                    *)
(***************************************************************************)
MaxFiles == 2

MaxLines == 3

MaxLineLen == 4

MaxNameLen == 4

(***************************************************************************)
(* Characters.                                                             *)
(***************************************************************************)
\* The printable ASCII characters U+0020..U+005F in code-point order.
PrintableLow ==
  << " ", "!", "\"", "#", "$", "%", "&", "'", "(", ")", "*", "+", ",", "-", ".", "/",
     "0", "1", "2", "3", "4", "5", "6", "7", "8", "9", ":", ";", "<", "=", ">", "?",
     "@", "A", "B", "C", "D", "E", "F", "G", "H", "I", "J", "K", "L", "M", "N", "O",
     "P", "Q", "R", "S", "T", "U", "V", "W", "X", "Y", "Z", "[", "\\", "]", "^", "_" >>

\* The printable ASCII characters U+0061..U+007E in code-point order.
PrintableHigh ==
  << "a", "b", "c", "d", "e", "f", "g", "h", "i", "j", "k", "l", "m", "n", "o",
     "p", "q", "r", "s", "t", "u", "v", "w", "x", "y", "z", "{", "|", "}", "~" >>

\* ord(c)
CodePoint(c) ==
  IF \E i \in 1..Len(PrintableLow) : PrintableLow[i] = c
  THEN 31 + (CHOOSE i \in 1..Len(PrintableLow) : PrintableLow[i] = c)
  ELSE 96 + (CHOOSE i \in 1..Len(PrintableHigh) : PrintableHigh[i] = c)

Digits == {"0", "1", "2", "3", "4", "5", "6", "7", "8", "9"}

\* the regular expression class \d
IsDigit(c) == c \in Digits

DigitVal(c) == CodePoint(c) - CodePoint("0")

\* str.isspace, as used by str.strip() and str.split(); the blank stands for
\* every whitespace character (both methods treat them alike).
IsSpace(c) == c = " "

SetMin(S) == CHOOSE x \in S : \A y \in S : x <= y

SetMax(S) == CHOOSE x \in S : \A y \in S : x >= y

\* Sequences over alphabet A of length at most n.
SeqsUpTo(A, n) == UNION {[1..k -> A] : k \in 0..n}

\* End (exclusive) of the maximal run of characters of class C starting at i.
RECURSIVE RunEnd(_, _, _)
RunEnd(s, i, C) ==
  IF i <= Len(s) /\ s[i] \in C THEN RunEnd(s, i + 1, C) ELSE i

(***************************************************************************)
(* int(str) and str(int)                                                   *)
(***************************************************************************)
RECURSIVE IntOfAcc(_, _, _)
IntOfAcc(s, i, acc) ==
  IF i > Len(s) THEN acc ELSE IntOfAcc(s, i + 1, 10 * acc + DigitVal(s[i]))

\* int(s) for a string of decimal digits
IntOf(s) == IntOfAcc(s, 1, 0)

RECURSIVE NatToStr(_)
NatToStr(n) ==
  IF n < 10 THEN <<PrintableLow[17 + n]>>
  ELSE NatToStr(n \div 10) \o <<PrintableLow[17 + (n % 10)]>>

\* str(n)
IntToStr(n) == IF n < 0 THEN <<"-">> \o NatToStr(-n) ELSE NatToStr(n)

(***************************************************************************)
(* extract_dimension                                                       *)
(***************************************************************************)
\* re.findall(r"\d+", s): the maximal digit runs, left to right.
RECURSIVE FindAllDigitRuns(_, _)
FindAllDigitRuns(s, i) ==
  IF i > Len(s) THEN <<>>
  ELSE IF IsDigit(s[i])
       THEN LET e == RunEnd(s, i, Digits)
            IN  <<SubSeq(s, i, e - 1)>> \o FindAllDigitRuns(s, e)
       ELSE FindAllDigitRuns(s, i + 1)

NoneValue == [t |-> "None"]

IntValue(n) == [t |-> "int", v |-> n]

StrValue(s) == [t |-> "str", s |-> s]

\* The element of the list of digit runs that extract_dimension converts.
PickRunFirst(numbers) == numbers[1]

PickRun(numbers) == numbers[Len(numbers)]

extract_dimension(filename) ==
  LET numbers == FindAllDigitRuns(filename, 1)
  IN  IF numbers # <<>> THEN IntValue(IntOf(PickRun(numbers))) ELSE NoneValue

(***************************************************************************)
(* String operations used by parse_metrics_from_file                       *)
(***************************************************************************)
\* str.strip()
Strip(s) ==
  LET keep == {i \in 1..Len(s) : ~IsSpace(s[i])}
  IN  IF keep = {} THEN <<>> ELSE SubSeq(s, SetMin(keep), SetMax(keep))

\* s.replace(c, "")
Remove(s, c) == SelectSeq(s, LAMBDA x : x # c)

\* s.replace(c, d) for single characters
Replace(s, c, d) == [i \in 1..Len(s) |-> IF s[i] = c THEN d ELSE s[i]]

\* line.replace("(", "").replace(")", "") followed by .replace(":", " ")
Clean(line) == Replace(Remove(Remove(line, "("), ")"), ":", " ")

\* End (exclusive) of the run of non-whitespace characters starting at i.
RECURSIVE TokenEnd(_, _)
TokenEnd(s, i) ==
  IF i <= Len(s) /\ ~IsSpace(s[i]) THEN TokenEnd(s, i + 1) ELSE i

\* str.split(): the maximal runs of non-whitespace characters, left to right.
RECURSIVE SplitFrom(_, _)
SplitFrom(s, i) ==
  IF i > Len(s) THEN <<>>
  ELSE IF IsSpace(s[i]) THEN SplitFrom(s, i + 1)
       ELSE <<SubSeq(s, i, TokenEnd(s, i) - 1)>> \o SplitFrom(s, TokenEnd(s, i))

Split(s) == SplitFrom(s, 1)

(***************************************************************************)
(* number_pattern = [-+]?\d[\d,]*\.?\d*(?:[eE][-+]?\d+)?                   *)
(***************************************************************************)
Signs == {"-", "+"}

ExpMarks == {"e", "E"}

At(s, i) == IF i >= 1 /\ i <= Len(s) THEN s[i] ELSE ""

\* End (exclusive) of the optional exponent group tried at position i.
ExponentEnd(s, i) ==
  IF At(s, i) \in ExpMarks
  THEN LET k == IF At(s, i + 1) \in Signs THEN i + 2 ELSE i + 1
       IN  IF IsDigit(At(s, k)) THEN RunEnd(s, k, Digits) ELSE i
  ELSE i

\* number_pattern.match(s, i - 1): the end (exclusive) of the match that
\* starts at position i, or 0 when the pattern does not match there.
MatchAt(s, i) ==
  LET j0 == IF At(s, i) \in Signs THEN i + 1 ELSE i
  IN  IF ~IsDigit(At(s, j0)) THEN 0
      ELSE LET j1 == RunEnd(s, j0 + 1, Digits \cup {","})
               j2 == IF At(s, j1) = "." THEN j1 + 1 ELSE j1
               j3 == RunEnd(s, j2, Digits)
           IN  ExponentEnd(s, j3)

NoMatch == [found |-> FALSE, start |-> 0, stop |-> 0]

\* The scan of number_pattern.search: the first position, from i on, at
\* which the pattern matches.
RECURSIVE SearchFrom(_, _)
SearchFrom(s, i) ==
  IF i > Len(s) THEN NoMatch
  ELSE IF MatchAt(s, i) # 0
       THEN [found |-> TRUE, start |-> i, stop |-> MatchAt(s, i)]
       ELSE SearchFrom(s, i + 1)

\* number_pattern.search(s)
number_pattern_search(s) == SearchFrom(s, 1)

\* match.group(0)
Group0(s, m) == SubSeq(s, m.start, m.stop - 1)

(***************************************************************************)
(* float(str)                                                              *)
(***************************************************************************)
ValueError == [t |-> "ValueError"]

RECURSIVE Pow10(_)
Pow10(n) == IF n = 0 THEN 1 ELSE 10 * Pow10(n - 1)

\* Drop the trailing zeros of a mantissa into the exponent.
RECURSIVE Normalize(_, _, _)
Normalize(neg, mant, exp) ==
  IF mant = 0 THEN [t |-> "float", neg |-> neg, mant |-> 0, exp |-> 0]
  ELSE IF mant % 10 = 0 THEN Normalize(neg, mant \div 10, exp + 1)
       ELSE [t |-> "float", neg |-> neg, mant |-> mant, exp |-> exp]

\* float(s) for a decimal literal: sign, integer digits, optional point and
\* fraction digits, optional exponent.  ValueError when s is not one.
FloatOf(s) ==
  LET j0 == IF At(s, 1) \in Signs THEN 2 ELSE 1
      j1 == RunEnd(s, j0, Digits)
      j2 == IF At(s, j1) = "." THEN j1 + 1 ELSE j1
      j3 == RunEnd(s, j2, Digits)
      ipart == SubSeq(s, j0, j1 - 1)
      fpart == SubSeq(s, j2, j3 - 1)
      hasExp == At(s, j3) \in ExpMarks
      k0 == IF At(s, j3 + 1) \in Signs THEN j3 + 2 ELSE j3 + 1
      k1 == RunEnd(s, k0, Digits)
      expMag == IntOf(SubSeq(s, k0, k1 - 1))
      expVal == IF ~hasExp THEN 0
                ELSE IF At(s, j3 + 1) = "-" THEN 0 - expMag ELSE expMag
      stop == IF hasExp THEN k1 ELSE j3
  IN  IF \/ Len(ipart) + Len(fpart) = 0
         \/ (hasExp /\ k1 = k0)
         \/ stop # Len(s) + 1
      THEN ValueError
      ELSE Normalize(At(s, 1) = "-", IntOf(ipart \o fpart), expVal - Len(fpart))

(***************************************************************************)
(* The body of the line loop of parse_metrics_from_file                    *)
(***************************************************************************)
Skipped == [recorded |-> FALSE]

\* The string that number_pattern is searched in.
SearchTargetSecondToken(cleaned, tokens) == tokens[2]

SearchTarget(cleaned, tokens) == cleaned

\* One iteration of the loop: the (name, value) the line records, or Skipped
\* where the code reaches a `continue`.
ParseLine(rawline) ==
  LET line == Strip(rawline)
      cleaned == Clean(line)
      tokens == Split(cleaned)
      target == SearchTarget(cleaned, tokens)
      match == number_pattern_search(target)
      num_str == Remove(Group0(target, match), ",")
      value == FloatOf(num_str)
  IN  IF line = <<>> \/ line[1] = "#" THEN Skipped
      ELSE IF Len(tokens) < 2 THEN Skipped
      ELSE IF ~match.found THEN Skipped
      ELSE IF value = ValueError THEN Skipped
      ELSE [recorded |-> TRUE, name |-> tokens[1], value |-> value]

(***************************************************************************)
(* Dictionaries (Dict[str, object]) as functions from key to value         *)
(***************************************************************************)
EmptyDict == <<>>

\* d[k] = v
Assign(d, k, v) == [x \in (DOMAIN d) \cup {k} |-> IF x = k THEN v ELSE d[x]]

\* d.get(k, default)
Get(d, k, default) == IF k \in DOMAIN d THEN d[k] ELSE default

DimensionKey == <<"d", "i", "m", "e", "n", "s", "i", "o", "n">>

FileKey == <<"f", "i", "l", "e">>

Range(f) == {f[i] : i \in DOMAIN f}

(***************************************************************************)
(* str(float), as csv.DictWriter formats a float cell                      *)
(***************************************************************************)
Zeros(n) == [i \in 1..n |-> "0"]

Abs(n) == IF n < 0 THEN 0 - n ELSE n

\* repr(x) of a non-zero float with decimal digits `digits` and the decimal
\* point after the first p of them: fixed notation for -4 < p <= 16,
\* scientific notation otherwise.
ReprDigits(digits, p) ==
  LET n == Len(digits)
      e == NatToStr(Abs(p - 1))
  IN  IF -4 < p /\ p <= 16
      THEN IF p <= 0 THEN <<"0", ".">> \o Zeros(0 - p) \o digits
           ELSE IF p >= n THEN digits \o Zeros(p - n) \o <<".", "0">>
           ELSE SubSeq(digits, 1, p) \o <<".">> \o SubSeq(digits, p + 1, n)
      ELSE <<digits[1]>>
           \o (IF n > 1 THEN <<".">> \o SubSeq(digits, 2, n) ELSE <<>>)
           \o <<"e", IF p - 1 < 0 THEN "-" ELSE "+">>
           \o (IF Len(e) < 2 THEN <<"0">> \o e ELSE e)

FloatRepr(x) ==
  (IF x.neg THEN <<"-">> ELSE <<>>)
  \o (IF x.mant = 0 THEN <<"0", ".", "0">>
      ELSE LET digits == NatToStr(x.mant)
           IN  ReprDigits(digits, Len(digits) + x.exp))

\* The text csv.DictWriter writes for a value: "" for None, str(v) otherwise.
Cell(v) ==
  CASE v.t = "None"  -> <<>>
    [] v.t = "int"   -> IntToStr(v.v)
    [] v.t = "str"   -> v.s
    [] v.t = "float" -> FloatRepr(v)

(***************************************************************************)
(* sorted() of a set of str: ascending code-point order                    *)
(***************************************************************************)
\* a < b for Python str
RECURSIVE LexLess(_, _)
LexLess(a, b) ==
  IF b = <<>> THEN FALSE
  ELSE IF a = <<>> THEN TRUE
  ELSE IF a[1] # b[1] THEN CodePoint(a[1]) < CodePoint(b[1])
  ELSE LexLess(Tail(a), Tail(b))

RECURSIVE SortedDescending(_)
SortedDescending(S) ==
  IF S = {} THEN <<>>
  ELSE LET m == CHOOSE x \in S : \A y \in S \ {x} : LexLess(y, x)
       IN  <<m>> \o SortedDescending(S \ {m})

RECURSIVE Sorted(_)
Sorted(S) ==
  IF S = {} THEN <<>>
  ELSE LET m == CHOOSE x \in S : \A y \in S \ {x} : LexLess(x, y)
       IN  <<m>> \o Sorted(S \ {m})

(***************************************************************************)
(* write_csv                                                               *)
(***************************************************************************)
\* The superset of all keys across all rows.
AllKeys(rs) == UNION {DOMAIN rs[i] : i \in 1..Len(rs)}

\* The header: dimension and file first, then the others sorted.
FieldNames(rs) ==
  LET all_keys == AllKeys(rs)
  IN  (IF DimensionKey \in all_keys THEN <<DimensionKey>> ELSE <<>>)
      \o (IF FileKey \in all_keys THEN <<FileKey>> ELSE <<>>)
      \o Sorted(all_keys \ {DimensionKey, FileKey})

\* row.get(key, "")
RowGet(row, key) == Get(row, key, StrValue(<<>>))

\* writer.writerow({key: row.get(key, "") for key in fieldnames})
WriteRow(row, fieldnames) ==
  [j \in 1..Len(fieldnames) |-> Cell(RowGet(row, fieldnames[j]))]

\* The file write_csv writes: the header line and one line of cells per row.
write_csv(rs) ==
  LET fieldnames == FieldNames(rs)
  IN  [header |-> fieldnames,
       body   |-> [i \in 1..Len(rs) |-> WriteRow(rs[i], fieldnames)]]

\* os.path.basename(path)
basename(path) ==
  LET slashes == {i \in 1..Len(path) : path[i] = "/"}
      i == IF slashes = {} THEN 0 ELSE SetMax(slashes)
  IN  SubSeq(path, i + 1, Len(path))

(***************************************************************************)
(* The environment: paths and files                                        *)
(***************************************************************************)
\* "r2/v1_7": the base name v1_7 has two digit runs, and the directory has
\* one that is not part of the base name.
PathA == <<"r", "2", "/", "v", "1", "_", "7">>

\* "b": a base name without digits
PathB == <<"b">>

Paths == {PathA, PathB}

LnA1 == <<"a", " ", "1">>

LnA2 == <<"a", ":", " ", "2">>

LnAP3 == <<"a", " ", "(", "3", ")">>

LnB2 == <<"b", " ", "2">>

LnUpperB7 == <<"B", " ", "7">>

LnAOnly == <<"a">>

LnANoNumber == <<"a", " ", "x">>

LnComment == <<"#", " ", "a", " ", "9">>

LnDimension5 == DimensionKey \o <<" ", "5">>

LnFile9 == FileKey \o <<" ", "9">>

LnC45 == <<"c", " ", "4", ".", "5">>

\* The lines single files are built from, line by line.
Lines == {LnA1, LnA2, LnB2, LnAOnly, LnANoNumber, LnComment}

\* The file contents batches are built from.
Contents ==
  { <<LnB2, LnUpperB7, LnA1>>,
    <<LnA1, LnDimension5, LnAP3>>,
    <<LnFile9, LnC45>> }

\* A path that does not exist: open() raises FileNotFoundError.
Missing == [status |-> "missing", content |-> <<>>, failAt |-> -1]

\* A path that cannot be opened: open() raises PermissionError.
Denied == [status |-> "denied", content |-> <<>>, failAt |-> -1]

\* A path no batch names.
Unused == [status |-> "unused", content |-> <<>>, failAt |-> -1]

\* A file with the lines c; with k >= 0, the read that follows the k-th line
\* raises OSError.
Readable(c, k) == [status |-> "ok", content |-> c, failAt |-> k]

FileStates(cs) ==
  {Missing, Denied} \cup UNION {{Readable(c, k) : k \in -1..Len(c)} : c \in cs}

(***************************************************************************)
(* State                                                                   *)
(***************************************************************************)
VARIABLES
  filepaths,   \* the argument of collate_metrics
  fs,          \* the file system: path -> file state
  pc,          \* "loop", "read", "return", "done" or "aborted"
  idx,         \* position of the for loop of collate_metrics (1-based)
  rows,        \* the list collate_metrics builds
  metrics,     \* the dict of the current parse_metrics_from_file call
  lineno,      \* lines the current call has read
  stderr,      \* the warnings printed
  csv,         \* the file written by write_csv
  in_line,     \* a line given to the line parser
  out_line,    \* what the line parser made of it
  in_name,     \* a base name given to extract_dimension
  out_dim      \* its result

vars == <<filepaths, fs, pc, idx, rows, metrics, lineno, stderr, csv,
          in_line, out_line, in_name, out_dim>>

pureVars == <<in_line, out_line, in_name, out_dim>>

NotRun == [t |-> "not run"]

NoCsv == [header |-> <<>>, body |-> <<>>]

(***************************************************************************)
(* parse_metrics_from_file and collate_metrics, step by step               *)
(***************************************************************************)
\* The dict a call of parse_metrics_from_file starts from.
NewMetricsShared(previous) == previous

NewMetrics(previous) == EmptyDict

\* The except clause that handles an exception raised inside the try block.
HandlerNotFoundOnly(exc) ==
  IF exc = "FileNotFoundError" THEN "not found" ELSE "propagate"

Handler(exc) ==
  IF exc = "FileNotFoundError" THEN "not found"
  ELSE IF exc \in {"PermissionError", "OSError"} THEN "failed"
  ELSE "propagate"

\* An exception raised inside the try block while parsing path.
Raise(exc, path) ==
  IF Handler(exc) = "propagate"
  THEN /\ pc' = "aborted"
       /\ UNCHANGED stderr
  ELSE /\ pc' = "return"
       /\ stderr' = Append(stderr, [warning |-> Handler(exc), path |-> path])

\* metrics[metric_name] = value, keeping the first value of a name
RecordKeepFirst(d, parsed) ==
  IF parsed.recorded /\ parsed.name \notin DOMAIN d
  THEN Assign(d, parsed.name, parsed.value) ELSE d

\* metrics[metric_name] = value, or nothing for a skipped line
Record(d, parsed) ==
  IF parsed.recorded THEN Assign(d, parsed.name, parsed.value) ELSE d

\* The reserved assignments made before the metrics are merged in.
MakeRowReservedFirst(parsed_metrics, base) ==
  [k \in (DOMAIN parsed_metrics) \cup {DimensionKey, FileKey} |->
     IF k \in DOMAIN parsed_metrics THEN parsed_metrics[k]
     ELSE IF k = DimensionKey THEN extract_dimension(base) ELSE StrValue(base)]

\* metrics["dimension"] = extract_dimension(base); metrics["file"] = base
MakeRow(parsed_metrics, base) ==
  Assign(Assign(parsed_metrics, DimensionKey, extract_dimension(base)),
         FileKey, StrValue(base))

\* rows.append(metrics)
AddRow(rs, row) == Append(rs, row)

\* The loop takes the next path and parse_metrics_from_file opens it.
OpenFile ==
  /\ pc = "loop"
  /\ idx <= Len(filepaths)
  /\ LET path == filepaths[idx]
     IN  /\ metrics' = NewMetrics(metrics)
         /\ lineno' = 0
         /\ IF fs[path].status = "ok"
            THEN pc' = "read" /\ UNCHANGED stderr
            ELSE Raise(IF fs[path].status = "missing"
                       THEN "FileNotFoundError" ELSE "PermissionError", path)
  /\ UNCHANGED <<filepaths, fs, idx, rows, csv, pureVars>>

\* One iteration of `for line in f`.
ReadLine ==
  /\ pc = "read"
  /\ LET f == fs[filepaths[idx]]
     IN  /\ lineno < Len(f.content)
         /\ f.failAt # lineno
         /\ metrics' = Record(metrics, ParseLine(f.content[lineno + 1]))
  /\ lineno' = lineno + 1
  /\ UNCHANGED <<filepaths, fs, pc, idx, rows, stderr, csv, pureVars>>

\* Reading the next line fails.
ReadError ==
  /\ pc = "read"
  /\ fs[filepaths[idx]].failAt = lineno
  /\ Raise("OSError", filepaths[idx])
  /\ UNCHANGED <<filepaths, fs, idx, rows, metrics, lineno, csv, pureVars>>

\* The file is exhausted: the with block and the try statement are left.
EndOfFile ==
  /\ pc = "read"
  /\ LET f == fs[filepaths[idx]]
     IN  lineno = Len(f.content) /\ f.failAt # lineno
  /\ pc' = "return"
  /\ UNCHANGED <<filepaths, fs, idx, rows, metrics, lineno, stderr, csv, pureVars>>

\* parse_metrics_from_file returns; the row is completed and appended.
AppendRow ==
  /\ pc = "return"
  /\ LET row == MakeRow(metrics, basename(filepaths[idx]))
     IN  /\ rows' = AddRow(rows, row)
         /\ metrics' = row
  /\ idx' = idx + 1
  /\ pc' = "loop"
  /\ UNCHANGED <<filepaths, fs, lineno, stderr, csv, pureVars>>

\* collate_metrics has returned; main writes the table.
WriteCsv ==
  /\ pc = "loop"
  /\ idx > Len(filepaths)
  /\ csv' = write_csv(rows)
  /\ pc' = "done"
  /\ UNCHANGED <<filepaths, fs, idx, rows, metrics, lineno, stderr, pureVars>>

Next == OpenFile \/ ReadLine \/ ReadError \/ EndOfFile \/ AppendRow \/ WriteCsv

\* The line parser and the dimension extractor have not been applied.
PureIdle ==
  /\ in_line = <<>>
  /\ out_line = NotRun
  /\ in_name = <<>>
  /\ out_dim = NotRun

\* The state of a run of main before its first step.
Start(paths, files) ==
  /\ filepaths = paths
  /\ fs = files
  /\ pc = "loop"
  /\ idx = 1
  /\ rows = <<>>
  /\ metrics = EmptyDict
  /\ lineno = 0
  /\ stderr = <<>>
  /\ csv = NoCsv
  /\ PureIdle

\* The file systems in which exactly the paths of the batch are files, each
\* in one of the given states.
FileSystems(paths, states) ==
  {[p \in Paths |-> IF p \in Range(paths) THEN g[p] ELSE Unused] :
     g \in [Range(paths) -> states]}

\* Batches of at most MaxFiles paths over files with the catalogue contents.
Init ==
  \E paths \in SeqsUpTo(Paths, MaxFiles) :
    \E files \in FileSystems(paths, FileStates(Contents)) :
      Start(paths, files)

Spec == Init /\ [][Next]_vars

\* One file built from at most MaxLines lines.
InitParse ==
  \E files \in FileSystems(<<PathA>>, FileStates(SeqsUpTo(Lines, MaxLines))) :
    Start(<<PathA>>, files)

SpecParse == InitParse /\ [][Next]_vars

(***************************************************************************)
(* The line parser applied to one line, and extract_dimension applied to   *)
(* one base name                                                           *)
(***************************************************************************)
LineAlphabet == {" ", "#", "(", ")", ":", "a", "1", ",", ".", "-", "+", "e"}

NameAlphabet == {"a", "_", ".", "0", "1", "2"}

mainVars == <<filepaths, fs, pc, idx, rows, metrics, lineno, stderr, csv>>

\* No batch is being collated.
MainIdle ==
  /\ filepaths = <<>>
  /\ fs = [p \in Paths |-> Unused]
  /\ pc = "call"
  /\ idx = 1
  /\ rows = <<>>
  /\ metrics = EmptyDict
  /\ lineno = 0
  /\ stderr = <<>>
  /\ csv = NoCsv

InitLine ==
  /\ MainIdle
  /\ in_line \in SeqsUpTo(LineAlphabet, MaxLineLen)
  /\ out_line = NotRun
  /\ in_name = <<>>
  /\ out_dim = NotRun

\* The loop body of parse_metrics_from_file runs on in_line.
ApplyParseLine ==
  /\ pc = "call"
  /\ out_line = NotRun
  /\ out_line' = ParseLine(in_line)
  /\ UNCHANGED <<mainVars, in_line, in_name, out_dim>>

NextLine == ApplyParseLine

SpecLine == InitLine /\ [][NextLine]_vars

InitDim ==
  /\ MainIdle
  /\ in_name \in SeqsUpTo(NameAlphabet, MaxNameLen)
  /\ out_dim = NotRun
  /\ in_line = <<>>
  /\ out_line = NotRun

\* extract_dimension is called on in_name.
ApplyExtractDimension ==
  /\ pc = "call"
  /\ out_dim = NotRun
  /\ out_dim' = extract_dimension(in_name)
  /\ UNCHANGED <<mainVars, in_line, out_line, in_name>>

NextDim == ApplyExtractDimension

SpecDim == InitDim /\ [][NextDim]_vars

(***************************************************************************)
(* Properties                                                              *)
(***************************************************************************)

\* C7: for a base name with at least one decimal digit, extract_dimension
\* returns the integer value of the LAST maximal run of digits (the run that
\* ends at the last digit of the name; earlier runs are ignored); for a name
\* without a digit it returns None and raises nothing.
C7_LastDigitRun ==
  out_dim # NotRun =>
    LET D == {i \in 1..Len(in_name) : in_name[i] \in Digits}
    IN  IF D = {} THEN out_dim = NoneValue
        ELSE LET e == SetMax(D)
                 b == SetMin({i \in 1..e : \A j \in i..e : j \in D})
             IN  /\ out_dim.t = "int"
                 /\ out_dim.v >= 0
                 /\ out_dim.v < Pow10(e - b + 1)
                 /\ \A j \in b..e :
                      (out_dim.v \div Pow10(e - j)) % 10 = DigitVal(in_name[j])

\* C7 witness: a name with two digit runs of different values, the last one
\* of two digits, has been converted.
C7_Witness ==
  /\ out_dim # NotRun
  /\ out_dim # NoneValue
  /\ Len(FindAllDigitRuns(in_name, 1)) >= 2
  /\ out_dim.v # IntOf(FindAllDigitRuns(in_name, 1)[1])
  /\ out_dim.v >= 10

\* C7 witness for the absent case: a non-empty name without digits.
C7_WitnessNone == in_name # <<>> /\ out_dim = NoneValue

\* The characters that end a token of the normalized line.
C9_Separators == {" ", ":"}

\* The characters that normalization leaves inside a token.
C9_IsTokenChar(c) == c \notin {" ", ":", "(", ")"}

\* The line has two token characters with a separator between them.
C9_TwoTokens(l) ==
  \E i, j, k \in 1..Len(l) :
    /\ i < j /\ j < k
    /\ C9_IsTokenChar(l[i]) /\ l[j] \in C9_Separators /\ C9_IsTokenChar(l[k])

\* The first token of the normalized line: from the first token character to
\* the next separator, parentheses dropped.
C9_FirstToken(l) ==
  LET i0 == SetMin({i \in 1..Len(l) : C9_IsTokenChar(l[i])})
      j0 == SetMin({j \in (i0 + 1)..(Len(l) + 1) :
                      j = Len(l) + 1 \/ l[j] \in C9_Separators})
  IN  SelectSeq(SubSeq(l, i0, j0 - 1), LAMBDA c : c \notin {"(", ")"})

\* The text of the first numeric match of the normalized line: it starts at
\* the first digit, or at a sign right before it.
C9_FirstMatchText(l) ==
  LET cl == Clean(Strip(l))
      d == SetMin({i \in 1..Len(cl) : cl[i] \in Digits})
      b == IF d > 1 /\ cl[d - 1] \in Signs THEN d - 1 ELSE d
  IN  SubSeq(cl, b, MatchAt(cl, b) - 1)

\* The first non-blank character of the line.
C9_FirstChar(l) == l[SetMin({i \in 1..Len(l) : l[i] # " "})]

\* C9: a line is recorded exactly when, after stripping, it is non-empty,
\* does not start with #, has at least two tokens after normalization and
\* contains a numeric match (that is, a digit); the recorded name is the
\* first token and the value is the first numeric match anywhere in the
\* normalized line.
C9_RecordedExactlyWhen ==
  out_line # NotRun =>
    LET l == in_line
        nonEmpty == \E i \in 1..Len(l) : l[i] # " "
        shouldRecord ==
          /\ nonEmpty
          /\ C9_FirstChar(l) # "#"
          /\ C9_TwoTokens(l)
          /\ \E i \in 1..Len(l) : l[i] \in Digits
    IN  /\ out_line.recorded <=> shouldRecord
        /\ out_line.recorded =>
             /\ out_line.name = C9_FirstToken(l)
             /\ out_line.value = FloatOf(Remove(C9_FirstMatchText(l), ","))

\* C9 witness: a recorded line whose first numeric match is a digit run
\* inside the metric name, not in the second token.
C9_Witness ==
  /\ out_line # NotRun
  /\ out_line.recorded
  /\ \E i \in 1..Len(out_line.name) : out_line.name[i] \in Digits
  /\ \A i \in 1..Len(Split(Clean(Strip(in_line)))[2]) :
       Split(Clean(Strip(in_line)))[2][i] \notin Digits

\* The reserved keys of a row.
ReservedKeys == {DimensionKey, FileKey}

\* b is the final segment of path: a suffix without "/" that is the whole
\* path or follows a "/".
IsBaseNameOf(b, path) ==
  /\ Len(b) <= Len(path)
  /\ \A i \in 1..Len(b) : b[i] # "/" /\ b[i] = path[Len(path) - Len(b) + i]
  /\ (Len(b) = Len(path) \/ path[Len(path) - Len(b)] = "/")

\* C1: whatever subset of the batch's paths is missing or unreadable,
\* collate_metrics never aborts and returns exactly one row per input path in
\* input order: row i has `file` equal to the base name of path i and
\* `dimension` equal to extract_dimension of that base name.
C1_OneRowPerPath ==
  /\ pc # "aborted"
  /\ Len(rows) = idx - 1
  /\ Len(rows) <= Len(filepaths)
  /\ pc = "done" => Len(rows) = Len(filepaths)
  /\ \A i \in 1..Len(rows) :
       /\ ReservedKeys \subseteq DOMAIN rows[i]
       /\ rows[i][FileKey].t = "str"
       /\ IsBaseNameOf(rows[i][FileKey].s, filepaths[i])
       /\ rows[i][DimensionKey] = extract_dimension(rows[i][FileKey].s)

\* C1 witness: a finished batch of two different paths, one missing and one
\* that cannot be opened.
C1_Witness ==
  /\ pc = "done"
  /\ Len(rows) = 2
  /\ fs[filepaths[1]].status = "missing"
  /\ fs[filepaths[2]].status = "denied"

\* C1 witness: a finished batch that names the same path twice.
C1_WitnessDuplicate ==
  /\ pc = "done"
  /\ Len(rows) = 2
  /\ filepaths[1] = filepaths[2]

\* The lines of content c that record the metric name n.
RecordingLines(c, n) ==
  {j \in 1..Len(c) : ParseLine(c[j]).recorded /\ ParseLine(c[j]).name = n}

\* The metric names content c records.
RecordedNames(c) ==
  {ParseLine(c[j]).name : j \in {k \in 1..Len(c) : ParseLine(c[k]).recorded}}

\* Row r holds, besides the reserved fields, exactly the metrics of content
\* c, each with the value of the last line that records it.
RowIsOwnFile(r, c) ==
  /\ (DOMAIN r) \ ReservedKeys = RecordedNames(c) \ ReservedKeys
  /\ \A n \in (DOMAIN r) \ ReservedKeys :
       r[n] = ParseLine(c[SetMax(RecordingLines(c, n))]).value

\* C2: a missing path gets a warning and an empty record, so its row has
\* exactly the two reserved fields and no metric key; the row of every other
\* (readable) file of the batch holds that file's own metrics only.
C2_MissingFileRow ==
  \A i \in 1..Len(rows) :
    LET f == fs[filepaths[i]]
    IN  /\ f.status = "missing" =>
             /\ DOMAIN rows[i] = ReservedKeys
             /\ \E w \in 1..Len(stderr) :
                  stderr[w] = [warning |-> "not found", path |-> filepaths[i]]
        /\ (f.status = "ok" /\ f.failAt = -1) => RowIsOwnFile(rows[i], f.content)

\* C2 witness: a finished batch whose first file recorded metrics and whose
\* second path is missing.
C2_Witness ==
  /\ pc = "done"
  /\ Len(rows) = 2
  /\ fs[filepaths[1]].status = "ok"
  /\ fs[filepaths[1]].failAt = -1
  /\ DOMAIN rows[1] # ReservedKeys
  /\ fs[filepaths[2]].status = "missing"

\* C3 (as claimed): the row of a file whose open or read failed holds no
\* metric, only the reserved fields.
C3_FailedFileRowEmpty ==
  \A i \in 1..Len(rows) :
    LET f == fs[filepaths[i]]
    IN  (f.status = "denied" \/ (f.status = "ok" /\ f.failAt # -1)) =>
          DOMAIN rows[i] = ReservedKeys

\* C4 (as claimed): the header of every written table, the one of the empty
\* batch included, has the dimension and the file column.
C4_ReservedColumnsAlways ==
  pc = "done" => ReservedKeys \subseteq Range(csv.header)

\* C4 restricted to batches of at least one path.
C4_ReservedColumnsNonEmpty ==
  (pc = "done" /\ filepaths # <<>>) => ReservedKeys \subseteq Range(csv.header)

\* a < b in code-point order: a is a proper prefix of b, or at the first
\* position where they differ a has the smaller code point.
StrLess(a, b) ==
  \E k \in 1..(Len(b)) :
    /\ \A i \in 1..(k - 1) : i <= Len(a) /\ a[i] = b[i]
    /\ \/ k = Len(a) + 1
       \/ k <= Len(a) /\ CodePoint(a[k]) < CodePoint(b[k])

\* C5: the header lists dimension first if any row has it, then file if any
\* row has it, then every other key of any row in ascending code-point
\* order, each exactly once; it is determined by the set of keys alone.
C5_HeaderOrder ==
  pc = "done" =>
    LET h == csv.header
        K == UNION {DOMAIN rows[i] : i \in 1..Len(rows)}
        nd == IF DimensionKey \in K THEN 1 ELSE 0
        nf == IF FileKey \in K THEN 1 ELSE 0
    IN  /\ Range(h) = K
        /\ Len(h) = Cardinality(K)
        /\ DimensionKey \in K => h[1] = DimensionKey
        /\ FileKey \in K => h[nd + 1] = FileKey
        /\ \A i, j \in (nd + nf + 1)..Len(h) : i < j => StrLess(h[i], h[j])

\* C5 witness: a written header with at least three metric columns, an
\* upper-case name among them, from a file that records them in another
\* order than the header's.
C5_Witness ==
  /\ pc = "done"
  /\ Len(csv.header) >= 5
  /\ csv.header[3] = <<"B">>
  /\ \E i \in 1..Len(filepaths) :
       LET c == fs[filepaths[i]].content
       IN  Len(c) >= 2 /\ ParseLine(c[1]).recorded
           /\ ParseLine(c[1]).name = csv.header[5]

\* C6 (as claimed): the columns are the union of the metric names of all
\* rows plus dimension and file, every written row has one cell per column,
\* and the cell of a key its row lacks is the empty string.
C6_SchemaUnion ==
  pc = "done" =>
    /\ Range(csv.header) = (UNION {DOMAIN rows[i] : i \in 1..Len(rows)}) \cup ReservedKeys
    /\ Len(csv.body) = Len(rows)
    /\ \A i \in 1..Len(csv.body) :
         /\ Len(csv.body[i]) = Len(csv.header)
         /\ \A j \in 1..Len(csv.header) :
              (csv.body[i][j] = <<>>) <=>
                \/ csv.header[j] \notin DOMAIN rows[i]
                \/ rows[i][csv.header[j]] = NoneValue
                \/ rows[i][csv.header[j]] = StrValue(<<>>)

\* C6 restricted to batches of at least one path.
C6_SchemaUnionNonEmpty == filepaths # <<>> => C6_SchemaUnion

\* C8: while a file is parsed, the record holds exactly the names recorded
\* by the lines read so far, each with the value of the last line that
\* recorded it; lines that are skipped change nothing.
C8_LastWriteWins ==
  pc \in {"read", "return"} =>
    LET c == SubSeq(fs[filepaths[idx]].content, 1, lineno)
    IN  /\ DOMAIN metrics = RecordedNames(c)
        /\ \A n \in DOMAIN metrics :
             metrics[n] = ParseLine(c[SetMax(RecordingLines(c, n))]).value

\* C8 witness: two lines recorded different values for a name and a later
\* line that starts with that name was skipped; the record holds the second
\* value.
C8_Witness ==
  /\ pc = "return"
  /\ lineno = 3
  /\ LET c == fs[filepaths[idx]].content
         p1 == ParseLine(c[1])
         p2 == ParseLine(c[2])
     IN  /\ p1.recorded /\ p2.recorded
         /\ p1.name = p2.name
         /\ p1.value # p2.value
         /\ ~ParseLine(c[3]).recorded
         /\ c[3][1] = p1.name[1]
         /\ metrics[p1.name] = p2.value

\* A string of decimal digits, or the empty string.
IsPlainIntegerOrEmpty(cell) == \A i \in 1..Len(cell) : cell[i] \in Digits

\* C10: the reserved assignment overwrites a metric named dimension or
\* file: in every row the dimension field is the extractor's result for the
\* base name (an integer or None) and the file field is the base name, and
\* every dimension cell written is a plain integer string or empty.
C10_ReservedOverwrite ==
  /\ \A i \in 1..Len(rows) :
       /\ rows[i][DimensionKey].t \in {"int", "None"}
       /\ rows[i][DimensionKey] = extract_dimension(basename(filepaths[i]))
       /\ rows[i][FileKey] = StrValue(basename(filepaths[i]))
  /\ pc = "done" =>
       \A i \in 1..Len(csv.body) : \A j \in 1..Len(csv.header) :
         csv.header[j] = DimensionKey => IsPlainIntegerOrEmpty(csv.body[i][j])

\* C10 witness: a written table of a file that records a metric named
\* dimension and a file that records a metric named file.
C10_Witness ==
  /\ pc = "done"
  /\ \E i, j \in 1..Len(filepaths) :
       /\ fs[filepaths[i]].failAt = -1
       /\ fs[filepaths[j]].failAt = -1
       /\ DimensionKey \in RecordedNames(fs[filepaths[i]].content)
       /\ FileKey \in RecordedNames(fs[filepaths[j]].content)

====
